---- MODULE Spec2Model ----
(***************************************************************************)
(* SimpleAsync: a task scheduler (SimpleAsync.h) on top of fixed-size      *)
(* worker pools (ThreadPool.h).  The scheduler's static tables, every      *)
(* pool's queue and workers, the shared state of every task's future and   *)
(* the threads that drive the scheduler are the state.  There is one       *)
(* action per operation; an operation that blocks (on m_tasksMutex, on a   *)
(* future, on a join) has a second action that resumes it.                 *)
(***************************************************************************)
EXTENDS Integers, Sequences, FiniteSets, TLC

\* ------------------------------------------------------------------ bounds
\* Task ids minted in a run.
MaxTasks == 2
\* Clock ticks a timeout entry is followed for.
MaxTime == 1

\* ------------------------------------------------------------- input sets
DefaultPoolName == "DefaultPool"
\* Pool names the callers use; "" is the empty name.
Names == {"", DefaultPoolName, "seq"}
\* Names Initialize is called with.
InitNames == {"", DefaultPoolName}
Ids == 0 .. (MaxTasks - 1)
\* Ids the callers pass: those minted, and one that never is.
AnyId == 0 .. MaxTasks
ThreadCounts == {1, 2}
\* Thread counts CreatePool is called with.
PoolCounts == {1}
Durations == {1}
\* What a task body does: return a value without reading its token, return
\* early when it reads a set token, throw.
Bodies == {"value", "poll", "throw"}
\* What a timeout handler does with the id it is given.
Handlers == {"cancel"}
\* The thread that calls Update, and another application thread.
Threads == {"driver", "app"}
NoThread == "none"
NoSubmit == [op |-> "none", pool |-> ""]

VARIABLES
    m_initialized,       \* SimpleAsync::m_initialized
    m_defaultPoolName,   \* SimpleAsync::m_defaultPoolName
    m_threadPools,       \* pool name -> ThreadPool
    m_id,                \* SimpleAsync::m_id
    m_tasks,             \* task id -> ConcreteAsyncTaskWrapper
    m_cancellations,     \* ids that have an entry in m_cancellations
    m_timepoints,        \* task id -> TaskTimeout
    m_timeoutCallbacks,  \* task id -> what its timeout handler does
    m_tasksMutex,        \* the thread that holds m_tasksMutex
    future,              \* task id -> the shared state of its std::future
    token,               \* task id -> CancellationState::Canceled
    pc,                  \* thread -> the call it is blocked in
    arg,                 \* thread -> the id it is blocked in ForceWait for
    cbLog,               \* the completion callbacks run, in order
    toLog,               \* task id -> the runs of its timeout handler
    submitted,           \* the submission the latest step made, if it made one
    reapedInTime         \* ids Update or ForceWait erased from m_tasks while
                         \* their timeout entry had not run out

tables == <<m_tasks, m_cancellations, m_timepoints, m_timeoutCallbacks>>
sched == <<m_initialized, m_defaultPoolName, m_threadPools, m_id, tables,
           m_tasksMutex, future, token>>
hist == <<cbLog, toLog, reapedInTime>>
vars == <<sched, pc, arg, submitted, hist>>

\* ---------------------------------------------------------------- helpers
Range(s) == {s[i] : i \in 1 .. Len(s)}

Without(f, ks) == [k \in (DOMAIN f) \ ks |-> f[k]]

With(f, k, v) == [x \in (DOMAIN f) \cup {k} |-> IF x = k THEN v ELSE f[x]]

RECURSIVE SeqOf(_)
\* The sequences that list every element of a finite set once: the orders an
\* iteration over an unordered_map can take.
SeqOf(S) ==
    IF S = {} THEN {<<>>}
    ELSE UNION {{<<x>> \o s : s \in SeqOf(S \ {x})} : x \in S}

\* --------------------------------------------------------------- ThreadPool
\* ThreadPool(numOfThreads, poolName): every worker starts waiting on the
\* condition variable.  Workers carry no identity: running holds the tasks the
\* busy workers execute, exited counts the workers that returned, the others
\* wait.  enq and deq list the ids in the order they entered and left m_tasks.
\* m_condition is three fields: asleep counts the workers blocked inside
\* m_condition.wait, notifyOne the notify_one calls issued for the pool and
\* notifyAll whether the destructor's notify_all was issued.  Spec, LiveSpec
\* and RaceSpec take wait(l, pred) as one step that goes on when pred holds,
\* and leave the three fields alone; PoolSpec follows the condition variable
\* step by step.
NewPool(n) ==
    [m_totalThreads |-> n, m_stop |-> FALSE, m_tasks |-> <<>>,
     m_activeThreads |-> 0, running |-> {}, exited |-> 0,
     enq |-> <<>>, deq |-> <<>>,
     asleep |-> 0, notifyOne |-> 0, notifyAll |-> FALSE]

\* Workers that take a task while they still run one.
MutWaitingWorkers(P) == P.m_totalThreads - P.exited

\* Workers of pool P in m_condition.wait, or on their way back to it.
WaitingWorkers(P) == P.m_totalThreads - Cardinality(P.running) - P.exited

\* An EnqueueTask that puts the task at the head of the queue.
MutEnqueueFront(P, task) ==
    [P EXCEPT !.m_tasks = <<task>> \o @, !.enq = Append(@, task.id),
              !.notifyOne = @ + 1]

\* EnqueueTask, lines 89-92: m_tasks.emplace under the pool's mutex, after
\* which the caller is to call notify_one.
EnqueueTask(P, task) ==
    [P EXCEPT !.m_tasks = Append(@, task), !.enq = Append(@, task.id),
              !.notifyOne = @ + 1]

\* A stack in place of the queue: the newest task is taken first.
MutPop(q) == [task |-> q[Len(q)], rest |-> SubSeq(q, 1, Len(q) - 1)]

\* Worker loop, lines 33-34: m_tasks.front() and m_tasks.pop(), the task a
\* waking worker takes off queue q and the queue it leaves.
Pop(q) == [task |-> Head(q), rest |-> Tail(q)]

\* A task() that hands the result to the completion callback itself.
MutWorkerCallbacks(id) == {id}

\* Worker loop, line 40: task() runs the packaged_task, which stores the
\* body's outcome in the future's shared state.  The completion callbacks
\* task() runs are none.
WorkerCallbacks(id) == {}

\* Bodies that the flag stops, whether they read it or not.
MutBodyStopped(kind, canceled) ==
    CASE kind = "throw" -> "exc"
      [] canceled -> "cancelled"
      [] OTHER -> "val"

\* Bodies that never see the flag: the token they read is another object.
MutBodyDeaf(kind, canceled) == IF kind = "throw" THEN "exc" ELSE "val"

\* The outcome of a body, by what it does and the token it reads.
BodyOutcome(kind, canceled) ==
    CASE kind = "throw" -> "exc"
      [] kind = "poll" /\ canceled -> "cancelled"
      [] OTHER -> "val"

Delivery(id, result, by) == [id |-> id, result |-> result, by |-> by]

\* Worker loop, lines 29-37: wake with a non-empty queue, pop the front task
\* and count the thread active.
WorkerDequeue(p) ==
    /\ p \in DOMAIN m_threadPools
    /\ LET P == m_threadPools[p] IN
        /\ WaitingWorkers(P) > 0
        /\ P.m_tasks # <<>>
        /\ m_threadPools' = [m_threadPools EXCEPT ![p] =
              [P EXCEPT !.m_tasks = Pop(P.m_tasks).rest,
                        !.running = @ \cup {Pop(P.m_tasks).task},
                        !.m_activeThreads = @ + 1,
                        !.deq = Append(@, Pop(P.m_tasks).task.id)]]
    /\ submitted' = NoSubmit
    /\ UNCHANGED <<m_initialized, m_defaultPoolName, m_id, tables,
                   m_tasksMutex, future, token, pc, arg, hist>>

\* A worker whose thread ends with the exception of a body that threw: it never
\* reaches fetch_sub, and it is gone.
MutThrowEndsWorker(P, task, out) ==
    [P EXCEPT !.running = @ \ {task},
              !.m_activeThreads = IF out = "exc" THEN @ ELSE @ - 1,
              !.exited = IF out = "exc" THEN @ + 1 ELSE @]

\* A worker without the fetch_sub of line 45.
MutNoFetchSub(P, task, out) == [P EXCEPT !.running = @ \ {task}]

\* Worker loop, lines 38-45: pool P once task() has come to its end with
\* outcome out.  An exception never leaves the try block (the packaged_task
\* stores it in the future, and catch (...) takes whatever else is thrown), so
\* whatever the outcome the worker reaches fetch_sub and goes round the loop.
TaskDone(P, task, out) ==
    [P EXCEPT !.running = @ \ {task}, !.m_activeThreads = @ - 1]

\* Worker loop, lines 38-45: the body returns or throws, the packaged_task
\* makes the future ready, the thread is no longer counted active.
WorkerFinish(p) ==
    /\ p \in DOMAIN m_threadPools
    /\ \E task \in m_threadPools[p].running :
        LET out == BodyOutcome(task.body, token[task.id]) IN
        /\ future' = [future EXCEPT ![task.id] = out]
        /\ m_threadPools' = [m_threadPools EXCEPT ![p] = TaskDone(@, task, out)]
        /\ cbLog' = IF task.id \in WorkerCallbacks(task.id)
                    THEN Append(cbLog, Delivery(task.id, out, "worker"))
                    ELSE cbLog
    /\ submitted' = NoSubmit
    /\ UNCHANGED <<m_initialized, m_defaultPoolName, m_id, tables,
                   m_tasksMutex, token, pc, arg, toLog, reapedInTime>>

\* A worker that returns as soon as stop is requested, queued tasks or not.
MutReturnOnStop(P) == P.m_stop

\* Worker loop, line 31: the test on which a woken worker of pool P returns.
WorkerReturns(P) == P.m_stop /\ P.m_tasks = <<>>

\* Worker loop, line 31: stop requested and nothing queued, the worker returns.
WorkerExit(p) ==
    /\ p \in DOMAIN m_threadPools
    /\ LET P == m_threadPools[p] IN
        /\ WaitingWorkers(P) > 0
        /\ WorkerReturns(P)
        /\ m_threadPools' = [m_threadPools EXCEPT ![p] =
              [P EXCEPT !.exited = @ + 1]]
    /\ submitted' = NoSubmit
    /\ UNCHANGED <<m_initialized, m_defaultPoolName, m_id, tables,
                   m_tasksMutex, future, token, pc, arg, hist>>

\* The steady clock advances by one unit: every timeout entry is one unit
\* older.  An entry is followed until it is MaxTime old.
Tick ==
    /\ \E k \in DOMAIN m_timepoints : m_timepoints[k].Elapsed < MaxTime
    /\ m_timepoints' = [k \in DOMAIN m_timepoints |->
          [m_timepoints[k] EXCEPT !.Elapsed = IF @ < MaxTime THEN @ + 1 ELSE @]]
    /\ submitted' = NoSubmit
    /\ UNCHANGED <<m_initialized, m_defaultPoolName, m_threadPools, m_id,
                   m_tasks, m_cancellations, m_timeoutCallbacks, m_tasksMutex,
                   future, token, pc, arg, hist>>

\* -------------------------------------------------- ConcreteAsyncTaskWrapper
NewWrapper == [valid |-> TRUE, CallbackInvoked |-> FALSE]

\* The wrapper after Task.get(): the future is no longer valid.
Consumed == [valid |-> FALSE, CallbackInvoked |-> TRUE]

\* A CheckAndExecuteCallback without the wait_for test of line 65.
MutCheckNoWait(w, fut) ==
    IF w.valid /\ ~w.CallbackInvoked
    THEN [ret |-> TRUE, run |-> fut # "exc", w |-> Consumed]
    ELSE [ret |-> TRUE, run |-> FALSE, w |-> w]

\* A CheckAndExecuteCallback without the catch of line 74: the exception of
\* Task.get() leaves the call before it answers, the wrapper is not erased.
MutCheckRethrows(w, fut) ==
    IF w.valid
    THEN IF fut # "pending"
         THEN IF ~w.CallbackInvoked
              THEN [ret |-> fut # "exc", run |-> fut # "exc", w |-> Consumed]
              ELSE [ret |-> TRUE, run |-> FALSE, w |-> w]
         ELSE [ret |-> FALSE, run |-> FALSE, w |-> w]
    ELSE [ret |-> TRUE, run |-> FALSE, w |-> w]

\* A CheckAndExecuteCallback that marks the callback invoked and never calls it.
MutCheckNoCallback(w, fut) ==
    IF w.valid /\ fut = "pending"
    THEN [ret |-> FALSE, run |-> FALSE, w |-> w]
    ELSE [ret |-> TRUE, run |-> FALSE, w |-> Consumed]

\* A CheckAndExecuteCallback that calls Callback for a failed body too.
MutCheckCallsOnFailure(w, fut) ==
    IF w.valid
    THEN IF fut # "pending"
         THEN IF ~w.CallbackInvoked
              THEN [ret |-> TRUE, run |-> TRUE, w |-> Consumed]
              ELSE [ret |-> TRUE, run |-> FALSE, w |-> w]
         ELSE [ret |-> FALSE, run |-> FALSE, w |-> w]
    ELSE [ret |-> TRUE, run |-> FALSE, w |-> w]

\* CheckAndExecuteCallback on wrapper w whose future's shared state is fut:
\* ret is the value returned, run says whether Callback was called, w is the
\* wrapper afterwards.  Task.get() rethrows a failed body's exception before
\* Callback is reached.
CheckAndExecuteCallback(w, fut) ==
    IF w.valid
    THEN IF fut # "pending"
         THEN IF ~w.CallbackInvoked
              THEN [ret |-> TRUE, run |-> fut # "exc", w |-> Consumed]
              ELSE [ret |-> TRUE, run |-> FALSE, w |-> w]
         ELSE [ret |-> FALSE, run |-> FALSE, w |-> w]
    ELSE [ret |-> TRUE, run |-> FALSE, w |-> w]

\* A wrapper whose ForceWait never waits for the future.
MutNoWait(w) == FALSE

\* The wrapper's ForceWait, line 49: whether it waits for the future at all.
WrapperWaits(w) == w.valid /\ ~w.CallbackInvoked

\* The wrapper's ForceWait, lines 50-59, once Task.wait() has returned with
\* the shared state fut.
WrapperForceWait(w, fut) ==
    IF WrapperWaits(w)
    THEN [run |-> fut # "exc", w |-> Consumed]
    ELSE [run |-> FALSE, w |-> w]

\* ------------------------------------------------------------- SimpleAsync
\* Initialize(defaultPoolName, maxThreads).  It is called while the scheduler
\* has no pool: at start, or after Destroy.
Initialize(name, n) ==
    /\ DOMAIN m_threadPools = {}
    /\ LET poolName == IF name = "" THEN DefaultPoolName ELSE name IN
        /\ m_defaultPoolName' = poolName
        /\ m_threadPools' = With(m_threadPools, poolName, NewPool(n))
    /\ m_initialized' = TRUE
    /\ submitted' = NoSubmit
    /\ UNCHANGED <<m_id, tables, m_tasksMutex, future, token, pc, arg, hist>>

\* A CreatePool without the lookup of lines 225-227.
MutNoDuplicateTest(poolName) == IF poolName = "" THEN "EmptyName" ELSE "none"

\* The exception CreatePool(poolName, ...) ends with.
CreatePoolError(poolName) ==
    IF poolName = "" THEN "EmptyName"
    ELSE IF poolName \in DOMAIN m_threadPools THEN "DuplicatePool"
    ELSE "none"

\* CreatePool(poolName, threadsCount)
CreatePool(poolName, n) ==
    /\ m_threadPools' =
          IF CreatePoolError(poolName) = "none"
          THEN With(m_threadPools, poolName, NewPool(n))
          ELSE m_threadPools
    /\ submitted' = NoSubmit
    /\ UNCHANGED <<m_initialized, m_defaultPoolName, m_id, tables,
                   m_tasksMutex, future, token, pc, arg, hist>>

\* The exception CreateTaskInPool(poolName, ...) ends with, in the order the
\* code tests: m_initialized, the pool lookup, then EnqueueTask's m_stop.
SubmitError(poolName) ==
    IF ~m_initialized THEN "NotInitialized"
    ELSE IF poolName \notin DOMAIN m_threadPools THEN "UnknownPool"
    ELSE IF m_threadPools[poolName].m_stop THEN "PoolStopped"
    ELSE "none"

\* CreateTaskInPool from line 110 on, the two checks passed: the id is taken
\* before EnqueueTask, which throws on a stopped pool; the tables are written
\* after it.
SubmitTables(poolName, kind) ==
    /\ m_id' = m_id + 1
    /\ IF m_threadPools[poolName].m_stop
       THEN UNCHANGED <<m_threadPools, m_tasks, m_cancellations, future>>
       ELSE /\ m_threadPools' = [m_threadPools EXCEPT ![poolName] =
                   EnqueueTask(@, [id |-> m_id, body |-> kind])]
            /\ future' = [future EXCEPT ![m_id] = "pending"]
            /\ m_tasks' = With(m_tasks, m_id, NewWrapper)
            /\ m_cancellations' = m_cancellations \cup {m_id}

\* CreateTaskInPool(poolName, task, callback, args...)
CreateTaskInPool(poolName, kind) ==
    /\ m_id < MaxTasks
    /\ IF SubmitError(poolName) \in {"NotInitialized", "UnknownPool"}
       THEN UNCHANGED <<m_threadPools, m_id, m_tasks, m_cancellations, future>>
       ELSE SubmitTables(poolName, kind)
    /\ submitted' = IF SubmitError(poolName) = "none"
                    THEN [op |-> "CreateTaskInPool", pool |-> poolName]
                    ELSE NoSubmit
    /\ UNCHANGED <<m_initialized, m_defaultPoolName, m_timepoints,
                   m_timeoutCallbacks, m_tasksMutex, token, pc, arg, hist>>

\* The pool CreateTaskTimeout hands to CreateTaskInPool (line 144).
TimeoutPool(poolName) == m_defaultPoolName

\* CreateTaskTimeout(poolName, timeoutMilliseconds, task, callback, timeoutfn):
\* an exception of CreateTaskInPool leaves before the timeout tables are
\* written.  StartedTime is now: nothing has elapsed.
CreateTaskTimeout(poolName, ms, kind, handler) ==
    /\ m_id < MaxTasks
    /\ LET err == SubmitError(TimeoutPool(poolName)) IN
        /\ IF err \in {"NotInitialized", "UnknownPool"}
           THEN UNCHANGED <<m_threadPools, m_id, m_tasks, m_cancellations,
                            future>>
           ELSE SubmitTables(TimeoutPool(poolName), kind)
        /\ IF err = "none"
           THEN /\ m_timeoutCallbacks' = With(m_timeoutCallbacks, m_id, handler)
                /\ m_timepoints' = With(m_timepoints, m_id,
                       [Elapsed |-> 0, TimeoutMs |-> ms])
           ELSE UNCHANGED <<m_timeoutCallbacks, m_timepoints>>
    /\ submitted' = IF SubmitError(TimeoutPool(poolName)) = "none"
                    THEN [op |-> "CreateTaskTimeout", pool |-> poolName]
                    ELSE NoSubmit
    /\ UNCHANGED <<m_initialized, m_defaultPoolName, m_tasksMutex, token,
                   pc, arg, hist>>

\* A Cancel without the m_tasks.find test: the flag of id is set, tracked or not.
MutCancelAny(id) == [x \in DOMAIN token |-> token[x] \/ x = id]

\* The exception GetAvailableThreads(poolName) ends with.
GetAvailableThreadsError(poolName) ==
    IF poolName \notin DOMAIN m_threadPools THEN "UnknownPool" ELSE "none"

\* GetAvailableThreads(poolName), for a pool that exists: the pool's
\* m_totalThreads - m_activeThreads.
GetAvailableThreads(poolName) ==
    m_threadPools[poolName].m_totalThreads
        - m_threadPools[poolName].m_activeThreads

\* The token flags after Cancel(id).
Canceled(id) ==
    IF id \in DOMAIN m_tasks THEN [token EXCEPT ![id] = TRUE] ELSE token

\* Cancel(id)
Cancel(id) ==
    /\ token' = Canceled(id)
    /\ submitted' = NoSubmit
    /\ UNCHANGED <<m_initialized, m_defaultPoolName, m_threadPools, m_id,
                   tables, m_tasksMutex, future, pc, arg, hist>>

\* A scan that takes every entry for run out.
MutExpired(tt) == TRUE

\* TaskTimeout tt has run out (line 182): diffMs >= TimeoutMs.
Expired(tt) == tt.Elapsed >= tt.TimeoutMs

\* Task id has a timeout entry that has not run out.
InTime(id) == id \in DOMAIN m_timepoints /\ ~Expired(m_timepoints[id])

\* Update, lines 173-197: the timeout scan, which takes no lock.  Every entry
\* that has run out has its handler called, if it has one, and is erased; a
\* "cancel" handler calls Cancel(id).
TimeoutScan ==
    LET expired == {k \in DOMAIN m_timepoints : Expired(m_timepoints[k])}
        fired == expired \cap DOMAIN m_timeoutCallbacks
        cancels == {k \in fired : m_timeoutCallbacks[k] = "cancel"}
    IN
    /\ token' = [id \in DOMAIN token |->
                    IF id \in cancels THEN Canceled(id)[id] ELSE token[id]]
    /\ m_timeoutCallbacks' = Without(m_timeoutCallbacks, fired)
    /\ m_timepoints' = Without(m_timepoints, expired)
    /\ toLog' = [id \in DOMAIN toLog |->
                    IF id \in fired
                    THEN Append(toLog[id],
                             [early |-> m_timepoints[id].Elapsed
                                            < m_timepoints[id].TimeoutMs,
                              reaped |-> id \in reapedInTime])
                    ELSE toLog[id]]

\* Update, lines 199-208: under m_tasksMutex, every wrapper is asked to
\* CheckAndExecuteCallback, in the unordered_map's iteration order, and erased
\* from m_tasks when it answers true.
TaskScan ==
    LET res == [id \in DOMAIN m_tasks |->
                   CheckAndExecuteCallback(m_tasks[id], future[id])]
        done == {id \in DOMAIN m_tasks : res[id].ret}
        run == {id \in DOMAIN m_tasks : res[id].run}
    IN
    /\ \E order \in SeqOf(run) :
          cbLog' = cbLog \o [i \in 1 .. Len(order) |->
                                Delivery(order[i], future[order[i]], "caller")]
    /\ m_tasks' = Without(m_tasks, done)
    /\ reapedInTime' = reapedInTime \cup {id \in done : InTime(id)}

\* Update(), called by the driver: the timeout scan, then the task scan, for
\* which it blocks while another thread holds m_tasksMutex.
Update ==
    /\ pc["driver"] = "idle"
    /\ TimeoutScan
    /\ IF m_tasksMutex = NoThread
       THEN TaskScan /\ UNCHANGED pc
       ELSE /\ pc' = [pc EXCEPT !["driver"] = "update"]
            /\ UNCHANGED <<m_tasks, cbLog, reapedInTime>>
    /\ submitted' = NoSubmit
    /\ UNCHANGED <<m_initialized, m_defaultPoolName, m_threadPools, m_id,
                   m_cancellations, m_tasksMutex, future, arg>>

\* Update() gets m_tasksMutex and scans the tasks.
UpdateResume ==
    /\ pc["driver"] = "update"
    /\ m_tasksMutex = NoThread
    /\ TaskScan
    /\ pc' = [pc EXCEPT !["driver"] = "idle"]
    /\ submitted' = NoSubmit
    /\ UNCHANGED <<m_initialized, m_defaultPoolName, m_threadPools, m_id,
                   m_cancellations, m_timepoints, m_timeoutCallbacks,
                   m_tasksMutex, future, token, arg, toLog>>

\* ForceWait(id), lines 164-167 and the wrapper's lines 49-60: the future is
\* ready (or the wrapper does not wait); get the result, call Callback unless
\* get() threw, erase the id from m_tasks and m_cancellations.
ForceWaitDeliver(id) ==
    LET res == WrapperForceWait(m_tasks[id], future[id]) IN
    /\ cbLog' = IF res.run
                THEN Append(cbLog, Delivery(id, future[id], "caller"))
                ELSE cbLog
    /\ m_tasks' = Without(m_tasks, {id})
    /\ m_cancellations' = m_cancellations \ {id}
    /\ reapedInTime' = reapedInTime \cup {x \in {id} : InTime(x)}

\* ForceWait(id) called by thread th: lock m_tasksMutex and look the id up.  An
\* unknown id returns at once; a known one is delivered, after Task.wait(),
\* for which the thread blocks with the mutex held while the future is pending.
ForceWait(th, id) ==
    /\ pc[th] = "idle"
    /\ m_tasksMutex = NoThread
    /\ IF id \notin DOMAIN m_tasks
       THEN UNCHANGED <<m_tasks, m_cancellations, m_tasksMutex, pc, arg, cbLog,
                        reapedInTime>>
       ELSE IF WrapperWaits(m_tasks[id]) /\ future[id] = "pending"
       THEN /\ m_tasksMutex' = th
            /\ pc' = [pc EXCEPT ![th] = "forcewait"]
            /\ arg' = [arg EXCEPT ![th] = id]
            /\ UNCHANGED <<m_tasks, m_cancellations, cbLog, reapedInTime>>
       ELSE /\ ForceWaitDeliver(id)
            /\ UNCHANGED <<m_tasksMutex, pc, arg>>
    /\ submitted' = NoSubmit
    /\ UNCHANGED <<m_initialized, m_defaultPoolName, m_threadPools, m_id,
                   m_timepoints, m_timeoutCallbacks, future, token, toLog>>

\* Task.wait() returns in the thread blocked in ForceWait: deliver, unlock.
ForceWaitResume(th) ==
    /\ pc[th] = "forcewait"
    /\ future[arg[th]] # "pending"
    /\ ForceWaitDeliver(arg[th])
    /\ m_tasksMutex' = NoThread
    /\ pc' = [pc EXCEPT ![th] = "idle"]
    /\ arg' = [arg EXCEPT ![th] = -1]
    /\ submitted' = NoSubmit
    /\ UNCHANGED <<m_initialized, m_defaultPoolName, m_threadPools, m_id,
                   m_timepoints, m_timeoutCallbacks, future, token, toLog>>

\* ~ThreadPool, lines 53-57: m_stop is set under the pool's mutex, after which
\* the destructor is to call notify_all.
Stopped(pools, p) ==
    [pools EXCEPT ![p].m_stop = TRUE, ![p].notifyAll = TRUE]

\* A Destroy without m_tasks.clear(): the wrappers stay in the table.
MutKeepTasks(t) == t

\* Destroy, line 255: m_tasks.clear() destroys every wrapper of table t, and
\* with it the future and the callback, without calling anything.
ClearTasks(t) == [id \in {} |-> NewWrapper]

\* Destroy(), called by the driver: lock m_tasksMutex, clear m_tasks, then
\* m_threadPools.clear(), which destroys the pools one at a time, in the
\* map's order; the first pool's destructor blocks in join.
Destroy ==
    /\ pc["driver"] = "idle"
    /\ m_tasksMutex = NoThread
    /\ m_tasks' = ClearTasks(m_tasks)
    /\ IF DOMAIN m_threadPools = {}
       THEN UNCHANGED <<m_threadPools, m_tasksMutex, pc>>
       ELSE /\ \E p \in DOMAIN m_threadPools :
                  m_threadPools' = Stopped(m_threadPools, p)
            /\ m_tasksMutex' = "driver"
            /\ pc' = [pc EXCEPT !["driver"] = "destroy"]
    /\ submitted' = NoSubmit
    /\ UNCHANGED <<m_initialized, m_defaultPoolName, m_id, m_cancellations,
                   m_timepoints, m_timeoutCallbacks, future, token, arg, hist>>

\* ~ThreadPool, lines 58-62: every worker of pool p has returned and is
\* joined; the pool is gone.  clear() goes on to the next pool, or Destroy
\* returns and unlocks.
DestroyJoin(p) ==
    /\ pc["driver"] = "destroy"
    /\ p \in DOMAIN m_threadPools
    /\ m_threadPools[p].m_stop
    /\ m_threadPools[p].exited = m_threadPools[p].m_totalThreads
    /\ LET left == Without(m_threadPools, {p}) IN
       IF DOMAIN left = {}
       THEN /\ m_threadPools' = left
            /\ m_tasksMutex' = NoThread
            /\ pc' = [pc EXCEPT !["driver"] = "idle"]
       ELSE /\ \E q \in DOMAIN left : m_threadPools' = Stopped(left, q)
            /\ UNCHANGED <<m_tasksMutex, pc>>
    /\ submitted' = NoSubmit
    /\ UNCHANGED <<m_initialized, m_defaultPoolName, m_id, tables, future,
                   token, arg, hist>>

\* ------------------------------------------------------------ specification
Init ==
    /\ m_initialized = FALSE
    /\ m_defaultPoolName = ""
    /\ m_threadPools = [p \in {} |-> NewPool(1)]
    /\ m_id = 0
    /\ m_tasks = [id \in {} |-> NewWrapper]
    /\ m_cancellations = {}
    /\ m_timepoints = [id \in {} |-> [Elapsed |-> 0, TimeoutMs |-> 0]]
    /\ m_timeoutCallbacks = [id \in {} |-> "ignore"]
    /\ m_tasksMutex = NoThread
    /\ future = [id \in Ids |-> "none"]
    /\ token = [id \in Ids |-> FALSE]
    /\ pc = [th \in Threads |-> "idle"]
    /\ arg = [th \in Threads |-> -1]
    /\ cbLog = <<>>
    /\ toLog = [id \in Ids |-> <<>>]
    /\ submitted = NoSubmit
    /\ reapedInTime = {}

Worker ==
    \E p \in Names : WorkerDequeue(p) \/ WorkerFinish(p) \/ WorkerExit(p)

Submit ==
    \E p \in Names, kind \in Bodies :
        \/ CreateTaskInPool(p, kind)
        \/ \E ms \in Durations, h \in Handlers : CreateTaskTimeout(p, ms, kind, h)

Pools ==
    \/ \E p \in InitNames, n \in ThreadCounts : Initialize(p, n)
    \/ \E p \in Names, n \in PoolCounts : CreatePool(p, n)

Drive ==
    \/ Update
    \/ UpdateResume
    \/ \E th \in Threads, id \in AnyId : ForceWait(th, id)
    \/ \E th \in Threads : ForceWaitResume(th)
    \/ \E id \in AnyId : Cancel(id)

Teardown == Destroy \/ \E p \in Names : DestroyJoin(p)

Next == Worker \/ Submit \/ Pools \/ Drive \/ Teardown \/ Tick

Spec == Init /\ [][Next]_vars

\* The scheduler between Initialize and Destroy, with the scheduling the claims
\* about progress assume: the driver keeps calling Update, a thread blocked on
\* the mutex or on a future goes on when it can, every pool's workers take
\* queued tasks, and every body that has started comes to an end.
LiveWorker == \E p \in Names : WorkerDequeue(p) \/ WorkerFinish(p)

LiveNext == LiveWorker \/ Submit \/ Pools \/ Drive \/ Tick

Fairness ==
    /\ WF_vars(Update)
    /\ WF_vars(UpdateResume)
    /\ \A th \in Threads : WF_vars(ForceWaitResume(th))
    /\ \A p \in Names : WF_vars(WorkerDequeue(p)) /\ WF_vars(WorkerFinish(p))

LiveSpec == Init /\ [][LiveNext]_vars /\ Fairness

\* CreateTask(task, callback) called by thread th, lines 92-114: the call goes
\* to CreateTaskInPool with m_defaultPoolName, the two checks pass and m_id is
\* read.  m_id is a plain uint32_t and no lock is held: m_id++ is a read and a
\* write, and another thread's m_id++ can come between the two.
CreateTaskRead(th) ==
    /\ pc[th] = "idle"
    /\ m_id < MaxTasks
    /\ SubmitError(m_defaultPoolName) = "none"
    /\ pc' = [pc EXCEPT ![th] = "submit"]
    /\ arg' = [arg EXCEPT ![th] = m_id]
    /\ submitted' = NoSubmit
    /\ UNCHANGED <<sched, hist>>

\* CreateTask in thread th, lines 114-135: m_id is written back, the task is
\* enqueued under the id that was read and the tables are written.
CreateTaskWrite(th, kind) ==
    /\ pc[th] = "submit"
    /\ m_id' = arg[th] + 1
    /\ m_threadPools' = [m_threadPools EXCEPT ![m_defaultPoolName] =
           EnqueueTask(@, [id |-> arg[th], body |-> kind])]
    /\ future' = [future EXCEPT ![arg[th]] = "pending"]
    /\ m_tasks' = With(m_tasks, arg[th], NewWrapper)
    /\ m_cancellations' = m_cancellations \cup {arg[th]}
    /\ pc' = [pc EXCEPT ![th] = "idle"]
    /\ arg' = [arg EXCEPT ![th] = -1]
    /\ submitted' = [op |-> "CreateTask", pool |-> m_defaultPoolName]
    /\ UNCHANGED <<m_initialized, m_defaultPoolName, m_timepoints,
                   m_timeoutCallbacks, m_tasksMutex, token, hist>>

\* CreateTask calls made by the two threads at the same time, before any
\* worker is scheduled: the pools are created and tasks are submitted to the
\* default pool by calls that interleave.
RaceSubmit ==
    \E th \in Threads :
        CreateTaskRead(th) \/ \E kind \in Bodies : CreateTaskWrite(th, kind)

RaceNext == Pools \/ RaceSubmit

RaceSpec == Init /\ [][RaceNext]_vars

\* Workers of pool P that are about to lock m_mutex and test the predicate
\* of m_condition.wait: started, back from a task, or woken.
Awake(P) == WaitingWorkers(P) - P.asleep

\* Worker loop, line 30: the predicate is false, the worker unlocks m_mutex
\* and blocks in one step, until it is notified.
WorkerSleep(p) ==
    /\ p \in DOMAIN m_threadPools
    /\ LET P == m_threadPools[p] IN
        /\ Awake(P) > 0
        /\ ~P.m_stop
        /\ P.m_tasks = <<>>
        /\ m_threadPools' = [m_threadPools EXCEPT ![p].asleep = @ + 1]
    /\ submitted' = NoSubmit
    /\ UNCHANGED <<m_initialized, m_defaultPoolName, m_id, tables,
                   m_tasksMutex, future, token, pc, arg, hist>>

\* Worker loop, lines 29-37, by a worker that holds m_mutex and finds the
\* predicate true: it takes the front task, or returns.
WorkerTest(p) ==
    /\ p \in DOMAIN m_threadPools
    /\ Awake(m_threadPools[p]) > 0
    /\ WorkerDequeue(p) \/ WorkerExit(p)

\* The workers blocked after a notify_one: one fewer, if any was.
WokenByOne(P) == IF P.asleep > 0 THEN P.asleep - 1 ELSE 0

\* EnqueueTask, line 92: m_condition.notify_one(), after m_mutex was unlocked.
\* With no worker blocked the notification is lost.
NotifyOne(p) ==
    /\ p \in DOMAIN m_threadPools
    /\ m_threadPools[p].notifyOne > 0
    /\ m_threadPools' = [m_threadPools EXCEPT
           ![p].notifyOne = @ - 1,
           ![p].asleep = WokenByOne(m_threadPools[p])]
    /\ submitted' = NoSubmit
    /\ UNCHANGED <<m_initialized, m_defaultPoolName, m_id, tables,
                   m_tasksMutex, future, token, pc, arg, hist>>

\* A destructor that calls notify_one in place of notify_all.
MutNotifyOne(P) == WokenByOne(P)

\* The workers blocked after a notify_all: none.
WokenByAll(P) == 0

\* ~ThreadPool, line 57: m_condition.notify_all(), after m_mutex was unlocked.
NotifyAll(p) ==
    /\ p \in DOMAIN m_threadPools
    /\ m_threadPools[p].notifyAll
    /\ m_threadPools' = [m_threadPools EXCEPT
           ![p].notifyAll = FALSE,
           ![p].asleep = WokenByAll(m_threadPools[p])]
    /\ submitted' = NoSubmit
    /\ UNCHANGED <<m_initialized, m_defaultPoolName, m_id, tables,
                   m_tasksMutex, future, token, pc, arg, hist>>

\* m_condition.wait returns without a notification, as it may: the worker
\* tests the predicate again.
SpuriousWake(p) ==
    /\ p \in DOMAIN m_threadPools
    /\ m_threadPools[p].asleep > 0
    /\ m_threadPools' = [m_threadPools EXCEPT ![p].asleep = @ - 1]
    /\ submitted' = NoSubmit
    /\ UNCHANGED <<m_initialized, m_defaultPoolName, m_id, tables,
                   m_tasksMutex, future, token, pc, arg, hist>>

\* ~ThreadPool, lines 58-62, reached after the notify_all of line 57.
PoolJoin(p) ==
    /\ p \in DOMAIN m_threadPools
    /\ ~m_threadPools[p].notifyAll
    /\ DestroyJoin(p)

\* The pools with their condition variable followed step by step: pools are
\* created, tasks are enqueued, workers test the predicate, block, are woken,
\* run a task or return, and Destroy stops the pools, notifies and joins.  A
\* thread that is to notify or to join does so, a worker that is awake tests
\* the predicate, and every body that has started comes to an end; a wake-up
\* without notification may never come.
PoolWorker ==
    \E p \in Names :
        WorkerSleep(p) \/ WorkerTest(p) \/ WorkerFinish(p) \/ SpuriousWake(p)

PoolNotify == \E p \in Names : NotifyOne(p) \/ NotifyAll(p)

PoolTeardown == Destroy \/ \E p \in Names : PoolJoin(p)

PoolSubmit == \E p \in Names, kind \in Bodies : CreateTaskInPool(p, kind)

PoolNext == Pools \/ PoolSubmit \/ PoolWorker \/ PoolNotify \/ PoolTeardown

PoolFairness ==
    \A p \in Names :
        /\ WF_vars(WorkerSleep(p))
        /\ WF_vars(WorkerTest(p))
        /\ WF_vars(WorkerFinish(p))
        /\ WF_vars(NotifyOne(p))
        /\ WF_vars(NotifyAll(p))
        /\ WF_vars(PoolJoin(p))

PoolSpec == Init /\ [][PoolNext]_vars /\ PoolFairness

\* ------------------------------------------------------------------ claims
\* Ids whose completion callback has run.
Delivered == {cbLog[i].id : i \in DOMAIN cbLog}

\* The place of id's (first) callback in cbLog.
PlaceOf(id) == CHOOSE i \in DOMAIN cbLog : cbLog[i].id = id

\* Pools with a single worker thread.
SerialPools == {p \in DOMAIN m_threadPools : m_threadPools[p].m_totalThreads = 1}

\* C1: over every interleaving of Update and ForceWait calls, a task's
\* callback runs at most once, and never while the task's result is not there.
C1_CallbackOnceAfterReady ==
    /\ \A id \in Ids : Cardinality({i \in DOMAIN cbLog : cbLog[i].id = id}) <= 1
    /\ \A i \in DOMAIN cbLog : cbLog[i].result \in {"val", "cancelled", "exc"}

\* Two callbacks have run, one reaped by Update (which leaves the token in
\* m_cancellations), one by ForceWait (which erases it).
C1_Witness ==
    \E a, b \in Delivered :
        /\ a \in m_cancellations
        /\ b \notin m_cancellations
        /\ DOMAIN m_tasks = {}

\* C2: when the driver keeps calling Update and the workers are scheduled
\* fairly, every task that was submitted and whose body does not fail has its
\* callback run with its result and is erased from m_tasks.
C2_EventuallyDelivered ==
    \A id \in Ids :
        (future[id] = "pending") ~>
            \/ future[id] = "exc"
            \/ /\ id \in Delivered
               /\ cbLog[PlaceOf(id)].result = future[id]
               /\ id \notin DOMAIN m_tasks

\* A task that observed its cancellation has been delivered and erased.
C2_Witness ==
    \E id \in Delivered :
        /\ future[id] = "cancelled"
        /\ id \notin DOMAIN m_tasks

\* C3: a completion callback is run by a thread that is inside Update or
\* ForceWait, never by a pool's worker.
C3_CallbackOnCallerThread == \A i \in DOMAIN cbLog : cbLog[i].by = "caller"

\* A callback has run while a worker is busy with another task.
C3_Witness ==
    /\ cbLog # <<>>
    /\ \E p \in DOMAIN m_threadPools : m_threadPools[p].running # {}

\* C4: in every pool, with any thread count, the tasks leave the queue in
\* the order they entered it.
C4_DequeueInEnqueueOrder ==
    \A p \in DOMAIN m_threadPools :
        LET P == m_threadPools[p] IN
        /\ Len(P.deq) <= Len(P.enq)
        /\ \A i \in 1 .. Len(P.deq) : P.deq[i] = P.enq[i]

\* A pool of two threads runs two tasks at once.
C4_Witness ==
    \E p \in DOMAIN m_threadPools :
        /\ m_threadPools[p].m_totalThreads = 2
        /\ Cardinality(m_threadPools[p].running) = 2

\* C5: in a pool of one thread at most one body runs at a time, and a body
\* has started only if every task enqueued before it has finished.
C5_SerialPoolRunsInOrder ==
    \A p \in SerialPools :
        LET P == m_threadPools[p] IN
        /\ Cardinality(P.running) <= 1
        /\ \A j \in 1 .. Len(P.enq) : \A i \in 1 .. (j - 1) :
               P.enq[j] \in Range(P.deq) => future[P.enq[i]] # "pending"

\* A pool of one thread runs the second of the tasks enqueued.
C5_Witness ==
    \E p \in SerialPools :
        /\ Len(m_threadPools[p].deq) = 2
        /\ m_threadPools[p].running # {}

\* C6 as stated: for two tasks of a one-thread pool, the callback of the one
\* submitted first runs first.
C6_CallbacksInSubmissionOrder ==
    \A p \in SerialPools :
        LET P == m_threadPools[p] IN
        \A j \in 1 .. Len(P.enq) : \A i \in 1 .. (j - 1) :
            (P.enq[i] \in Delivered /\ P.enq[j] \in Delivered)
                => PlaceOf(P.enq[i]) < PlaceOf(P.enq[j])

\* C6 as amended: for two tasks of a one-thread pool, the callback of the one
\* submitted later never runs before the result of the earlier one is ready.
C6_CallbackAfterEarlierResults ==
    \A p \in SerialPools :
        LET P == m_threadPools[p] IN
        \A j \in 1 .. Len(P.enq) : \A i \in 1 .. (j - 1) :
            P.enq[j] \in Delivered => future[P.enq[i]] # "pending"

\* Both callbacks of a one-thread pool's tasks have run, the later task's first.
C6_Witness ==
    \E p \in SerialPools :
        LET P == m_threadPools[p] IN
        /\ Len(P.enq) = 2
        /\ {P.enq[1], P.enq[2]} \subseteq Delivered
        /\ PlaceOf(P.enq[2]) < PlaceOf(P.enq[1])

\* C7: a task's timeout handler runs at most once, and never in an Update
\* that runs before the timeout has elapsed.
C7_TimeoutOnceNotEarly ==
    \A id \in Ids :
        /\ Len(toLog[id]) <= 1
        /\ \A i \in DOMAIN toLog[id] : ~toLog[id][i].early

\* One task's handler has run while another task's timeout is still running.
C7_Witness ==
    \E a, b \in Ids :
        /\ Len(toLog[a]) = 1
        /\ toLog[b] = <<>>
        /\ InTime(b)

\* C8 as stated: the timeout handler of a task that Update or ForceWait
\* delivered and reaped before its timeout ran out never runs afterwards.
C8_NoTimeoutAfterReap ==
    \A id \in Ids : \A i \in DOMAIN toLog[id] : ~toLog[id][i].reaped

\* The exception CreateTaskTimeout(poolName, ...) ends with.
TimeoutError(poolName) == SubmitError(TimeoutPool(poolName))

\* C9 as stated: CreateTaskTimeout called with the name of a pool enqueues
\* the task into that pool, and into no other.
C9_TimeoutUsesNamedPool ==
    (submitted.op = "CreateTaskTimeout" /\ submitted.pool \in DOMAIN m_threadPools)
        => \A q \in DOMAIN m_threadPools :
               (m_id - 1) \in Range(m_threadPools[q].enq) <=> q = submitted.pool

\* The error the specification gives a submission to pool poolName.
ExpectedSubmitError(poolName) ==
    IF ~m_initialized THEN "NotInitialized"
    ELSE IF poolName \notin DOMAIN m_threadPools THEN "UnknownPool"
    ELSE "none"

\* C10 as stated: before Initialize both submissions fail with
\* NotInitialized, for a name that is no pool with UnknownPool, and a failed
\* submission changes nothing: no id is taken, no table or queue is written.
C10_SubmitFailsCleanly ==
    [][\A poolName \in Names :
          ExpectedSubmitError(poolName) # "none" =>
              /\ SubmitError(poolName) = ExpectedSubmitError(poolName)
              /\ TimeoutError(poolName) = ExpectedSubmitError(poolName)
              /\ (\E kind \in Bodies : CreateTaskInPool(poolName, kind))
                    => UNCHANGED sched
              /\ (\E ms \in Durations, kind \in Bodies, h \in Handlers :
                      CreateTaskTimeout(poolName, ms, kind, h))
                    => UNCHANGED sched]_vars

\* C11: Cancel(id) on an id that is in m_tasks sets the flag of that id's
\* token, which m_cancellations holds, and nothing else: no other token, no
\* table, no pool; on an id that is not in m_tasks it changes nothing.
C11_CancelSetsOneToken ==
    [][\A id \in AnyId :
          Cancel(id) =>
              /\ id \in DOMAIN m_tasks => id \in m_cancellations
              /\ \A x \in Ids :
                     token'[x] = (token[x] \/ (x = id /\ id \in DOMAIN m_tasks))
              /\ UNCHANGED <<m_initialized, m_defaultPoolName, m_threadPools,
                             m_id, tables, m_tasksMutex, future, pc, arg,
                             hist>>]_vars

\* Of two tracked tasks, neither with a timeout handler run, one has been
\* cancelled and the other has not.
C11_Witness ==
    \E a, b \in DOMAIN m_tasks :
        /\ token[a] /\ ~token[b]
        /\ \A id \in Ids : toLog[id] = <<>>

\* Ids of the tasks with a body of the given kind that are queued or running
\* in some pool.
InPools(kind) ==
    UNION {{task.id : task \in {x \in Range(m_threadPools[p].m_tasks)
                                         \cup m_threadPools[p].running :
                                     x.body = kind}} :
           p \in DOMAIN m_threadPools}

\* C12: a task whose body never reads its token is not stopped, not removed
\* from m_tasks and not altered by Cancel or by a timeout that ran out: its
\* body ends with its normal result, the task stays in m_tasks until then,
\* and once its flag is set the callback is still delivered with that result.
C12_CancelIsAdvisory ==
    /\ [][\A id \in InPools("value") :
             /\ future'[id] # future[id] => future'[id] = "val"
             /\ id \in DOMAIN m_tasks => id \in DOMAIN m_tasks']_vars
    /\ \A id \in Ids :
           (/\ token[id]
            /\ id \in DOMAIN m_tasks
            /\ id \in InPools("value") \/ future[id] = "val")
               ~> (id \in Delivered /\ cbLog[PlaceOf(id)].result = "val")

\* A body that never reads its token is running with its flag set by the
\* handler of its timeout.
C12_Witness ==
    \E id \in InPools("value") :
        /\ token[id]
        /\ Len(toLog[id]) = 1
        /\ \E p \in DOMAIN m_threadPools :
               \E task \in m_threadPools[p].running : task.id = id

\* A step in which the call ForceWait(id) of thread th, id in m_tasks, returns:
\* at once, or after it blocked in Task.wait().
ForceWaitReturns(th, id) ==
    \/ ForceWait(th, id) /\ id \in DOMAIN m_tasks /\ pc'[th] = "idle"
    \/ ForceWaitResume(th) /\ arg[th] = id

\* C13: when ForceWait(id) returns for an id that was in m_tasks, the task's
\* result is there, its callback has run with it (or the body's failure was
\* absorbed), and the id is no longer in m_tasks.
C13_ForceWaitDelivers ==
    [][\A th \in Threads, id \in Ids :
          ForceWaitReturns(th, id) =>
              /\ future'[id] \in {"val", "cancelled", "exc"}
              /\ id \notin DOMAIN m_tasks'
              /\ \/ future'[id] = "exc"
                 \/ \E i \in DOMAIN cbLog' :
                        cbLog'[i].id = id /\ cbLog'[i].result = future'[id]]_vars

\* ForceWait has delivered one task and absorbed the failure of another: both
\* are gone from m_tasks and from m_cancellations.
C13_Witness ==
    \E a \in Delivered, b \in Ids :
        /\ future[b] = "exc"
        /\ {a, b} \cap (DOMAIN m_tasks \cup m_cancellations) = {}

\* C14 as stated: while no Destroy is under way, ForceWait(id) for an id that
\* is not in m_tasks returns without waiting for any worker (the call can
\* always run to its end), and running it changes nothing: no callback, no
\* table, no pool.
C14_UnknownIdIsNoOp ==
    [][\A th \in Threads, id \in AnyId :
          (pc[th] = "idle" /\ id \notin DOMAIN m_tasks /\ pc["driver"] # "destroy") =>
              /\ ENABLED ForceWait(th, id)
              /\ ForceWait(th, id) => UNCHANGED <<sched, pc, arg, hist>>]_vars

\* C15 as stated: the ids the successful submissions return, which are the
\* ids enqueued in the pools, are all different and increase from one
\* submission to the next, also when the submissions are calls made by
\* different threads at the same time.
C15_IdsUniqueIncreasing ==
    \A p, q \in DOMAIN m_threadPools :
        LET ep == m_threadPools[p].enq
            eq == m_threadPools[q].enq
        IN \A i \in DOMAIN ep, j \in DOMAIN eq :
               /\ ep[i] < m_id
               /\ (p = q /\ i < j) => ep[i] < eq[j]
               /\ p # q => ep[i] # eq[j]

\* C16 as stated: while a thread is inside ForceWait, between looking an id
\* up in m_tasks and erasing it, with m_tasksMutex held, no step of a
\* submission writes m_tasks, m_cancellations or the timeout tables, and no
\* Cancel reads m_tasks to set a token.
C16_TablesMutuallyExcluded ==
    [][(\E th \in Threads : pc[th] = "forcewait" /\ m_tasksMutex = th) =>
          /\ submitted'.op = "none"
          /\ \A id \in AnyId : Cancel(id) => token' = token]_vars

\* A step in which Update scans m_tasks: at once, or after it waited for
\* m_tasksMutex.
UpdateScans == (Update /\ m_tasksMutex = NoThread) \/ UpdateResume

\* C17: a task whose body threw is handled by Update and ForceWait like one
\* that returned: the Update that scans it and the ForceWait called for it
\* return to their caller and erase it from m_tasks, and it never enters
\* m_tasks again.
C17_FailureIsAbsorbed ==
    [][\A id \in Ids :
          future[id] = "exc" =>
              /\ UpdateScans => id \notin DOMAIN m_tasks' /\ pc'["driver"] = "idle"
              /\ \A th \in Threads :
                     ForceWaitReturns(th, id) =>
                         id \notin DOMAIN m_tasks' /\ pc'[th] = "idle"
              /\ id \notin DOMAIN m_tasks => id \notin DOMAIN m_tasks']_vars

\* Update has reaped a task whose body threw (its token is still in
\* m_cancellations), ForceWait another, and no callback has run.
C17_Witness ==
    /\ cbLog = <<>>
    /\ \E a, b \in Ids \ DOMAIN m_tasks :
           /\ future[a] = "exc" /\ a \in m_cancellations
           /\ future[b] = "exc" /\ b \notin m_cancellations

\* Ids that were submitted, are out of m_tasks and have had no callback.
Dropped == {id \in Ids : future[id] # "none"} \ (DOMAIN m_tasks \cup Delivered)

\* C18: Destroy runs no callback, neither in the call nor while it joins the
\* workers, which finish the queued and running tasks; every task that was
\* not delivered when Destroy was called is out of m_tasks after the call, and
\* a task that is out of m_tasks without its callback never has it run.
C18_DestroyRunsNoCallback ==
    [][/\ (Destroy \/ pc["driver"] = "destroy") => cbLog' = cbLog
       /\ Destroy => DOMAIN m_tasks \subseteq Dropped'
       /\ Dropped \subseteq Dropped']_vars

\* Destroy has returned; it dropped a task whose result is there and whose
\* timeout handler has run, and no callback has run.
C18_Witness ==
    /\ m_initialized
    /\ DOMAIN m_threadPools = {}
    /\ pc["driver"] = "idle"
    /\ cbLog = <<>>
    /\ \E id \in Dropped : future[id] = "val" /\ toLog[id] # <<>>

\* C19 as stated: an Initialize that follows a Destroy leaves a scheduler with
\* nothing of before: m_tasks, m_cancellations and the timeout tables are
\* empty (so no handler registered before the Destroy can run later) and the
\* default pool is the only pool.
C19_FreshAfterReinitialize ==
    [][\A p \in InitNames, n \in ThreadCounts :
          (m_initialized /\ Initialize(p, n)) =>
              /\ DOMAIN m_tasks' = {}
              /\ m_cancellations' = {}
              /\ DOMAIN m_timepoints' = {}
              /\ DOMAIN m_timeoutCallbacks' = {}
              /\ DOMAIN m_threadPools' = {m_defaultPoolName'}]_vars

\* Destroy has returned and Initialize has not been called since: the default
\* pool is gone.
Destroyed ==
    /\ m_initialized
    /\ pc["driver"] = "idle"
    /\ m_defaultPoolName \notin DOMAIN m_threadPools

\* C20 as stated: after Destroy and before a new Initialize, CreateTaskInPool,
\* CreateTaskTimeout, CreatePool and GetAvailableThreads end with an error,
\* whatever pool name they are called with.
C20_ErrorsAfterDestroy ==
    Destroyed =>
        \A poolName \in Names :
            /\ SubmitError(poolName) # "none"
            /\ TimeoutError(poolName) # "none"
            /\ CreatePoolError(poolName) # "none"
            /\ GetAvailableThreadsError(poolName) # "none"

\* C21: CreatePool with the empty name ends with EmptyName, with the name of
\* a pool that exists (the default pool's too) with DuplicatePool, and in both
\* cases m_threadPools is as before: the pool of that name, its queue and its
\* workers are the same, and no pool is added.
C21_CreatePoolFailsCleanly ==
    [][\A poolName \in Names, n \in PoolCounts :
          CreatePool(poolName, n) =>
              /\ poolName = "" =>
                     /\ CreatePoolError(poolName) = "EmptyName"
                     /\ m_threadPools' = m_threadPools
              /\ (poolName # "" /\ poolName \in DOMAIN m_threadPools) =>
                     /\ CreatePoolError(poolName) = "DuplicatePool"
                     /\ m_threadPools' = m_threadPools]_vars

\* The default pool has two threads and runs a task, and a second pool exists:
\* a CreatePool of either name, with one thread, would put another pool in
\* its place.
C21_Witness ==
    /\ DOMAIN m_threadPools = {m_defaultPoolName, "seq"}
    /\ m_threadPools[m_defaultPoolName].m_totalThreads = 2
    /\ m_threadPools[m_defaultPoolName].running # {}
    /\ m_threadPools["seq"].m_tasks # <<>>

\* C22 as stated: a call of Update never waits for a worker to finish a task:
\* it is never waiting for m_tasksMutex while the thread that holds the mutex
\* is inside ForceWait, waiting for the future of a task whose body has not
\* ended.
C22_UpdateNeverWaitsForWorker ==
    pc["driver"] = "update" =>
        ~\E th \in Threads :
            /\ m_tasksMutex = th
            /\ pc[th] = "forcewait"
            /\ future[arg[th]] = "pending"

\* C23: a pool whose destructor has set m_stop loses no queued task: no
\* worker returns while a task is queued, and when every worker has returned,
\* which is when the destructor's joins (and so Destroy) can return, every
\* task that was enqueued has been dequeued and its body has run to its end.
C23_ShutdownDrainsQueue ==
    \A p \in DOMAIN m_threadPools :
        LET P == m_threadPools[p] IN
        /\ (P.m_stop /\ P.m_tasks # <<>>) => P.exited = 0
        /\ (P.m_stop /\ P.exited = P.m_totalThreads) =>
               /\ P.m_tasks = <<>>
               /\ P.running = {}
               /\ P.deq = P.enq
               /\ \A i \in DOMAIN P.enq :
                      future[P.enq[i]] \in {"val", "cancelled", "exc"}

\* The single worker of a stopped pool has returned after two tasks were
\* enqueued; Destroy dropped both from m_tasks before their callback.
C23_Witness ==
    \E p \in SerialPools :
        LET P == m_threadPools[p] IN
        /\ P.m_stop
        /\ P.exited = P.m_totalThreads
        /\ Len(P.enq) = 2
        /\ Range(P.enq) \subseteq Dropped

\* Task id has a timeout entry that has run out and whose handler, which
\* calls Cancel(id), has not been called yet.
CancelDue(id) ==
    /\ id \in DOMAIN m_timepoints
    /\ Expired(m_timepoints[id])
    /\ id \in DOMAIN m_timeoutCallbacks
    /\ m_timeoutCallbacks[id] = "cancel"

C25_TablesConsistent ==
    (\A th \in Threads : pc[th] = "idle") =>
        (m_cancellations \cup DOMAIN m_timepoints \cup DOMAIN m_timeoutCallbacks)
            \subseteq DOMAIN m_tasks

\* Tasks of pool P whose body threw.
Thrown(P) == {i \in DOMAIN P.deq : future[P.deq[i]] = "exc"}

\* C26: in a pool where a body has thrown, no worker is lost: every thread
\* counted active is running a body, no worker has returned unless the pool
\* was stopped, and a queued task is taken as soon as a thread is not active.
C26_ThrowKeepsWorker ==
    \A p \in DOMAIN m_threadPools :
        LET P == m_threadPools[p] IN
        Thrown(P) # {} =>
            /\ P.m_activeThreads = Cardinality(P.running)
            /\ ~P.m_stop => P.exited = 0
            /\ (P.m_tasks # <<>> /\ P.m_activeThreads < P.m_totalThreads)
                   => ENABLED WorkerDequeue(p)

\* The single worker of a pool ran a body that threw and then a body that
\* returned.
C26_Witness ==
    \E p \in SerialPools :
        LET P == m_threadPools[p] IN
        /\ Len(P.deq) = 2
        /\ future[P.deq[1]] = "exc"
        /\ future[P.deq[2]] = "val"
        /\ ~P.m_stop

\* C27: in every pool m_activeThreads is between 0 and m_totalThreads, so
\* GetAvailableThreads answers a number in 0 .. m_totalThreads, and the bodies
\* the pool runs at one time are never more than m_totalThreads, the thread
\* count the pool was constructed with.
C27_ActiveWithinTotal ==
    \A p \in DOMAIN m_threadPools :
        LET P == m_threadPools[p] IN
        /\ P.m_totalThreads \in ThreadCounts \cup PoolCounts
        /\ 0 <= P.m_activeThreads
        /\ P.m_activeThreads <= P.m_totalThreads
        /\ GetAvailableThreadsError(p) = "none"
        /\ GetAvailableThreads(p) \in 0 .. P.m_totalThreads
        /\ Cardinality(P.running) <= P.m_totalThreads

\* Every thread of a pool of two is active, and another pool has every
\* thread available.
C27_Witness ==
    \E p, q \in DOMAIN m_threadPools :
        /\ m_threadPools[p].m_totalThreads = 2
        /\ GetAvailableThreads(p) = 0
        /\ GetAvailableThreads(q) = m_threadPools[q].m_totalThreads

\* C28: with every body that has started coming to its end, a pool whose
\* destructor has set m_stop has every worker return from its loop, whatever
\* the workers were doing and whatever was queued, and the destructor's joins
\* return, so that the pool is gone.
C28_ShutdownTerminates ==
    /\ \A p \in Names :
           (p \in DOMAIN m_threadPools /\ m_threadPools[p].m_stop)
               ~> /\ p \in DOMAIN m_threadPools
                  /\ m_threadPools[p].exited = m_threadPools[p].m_totalThreads
    /\ \A p \in Names :
           (p \in DOMAIN m_threadPools /\ m_threadPools[p].m_stop)
               ~> p \notin DOMAIN m_threadPools

\* Destroy has returned after it stopped a pool of two threads that had run
\* two tasks: no pool is left.
C28_Witness ==
    /\ m_initialized
    /\ pc["driver"] = "idle"
    /\ DOMAIN m_threadPools = {}
    /\ \A id \in Ids : future[id] \in {"val", "cancelled", "exc"}

\* C29: the callback of a task whose body threw is never run, by Update or by
\* ForceWait: no callback is run without a result, and a task that failed is
\* in m_tasks untouched or is out of it.
C29_NoCallbackOnFailure ==
    /\ \A i \in DOMAIN cbLog : cbLog[i].result \in {"val", "cancelled"}
    /\ \A id \in Ids :
           future[id] = "exc" =>
               /\ id \notin Delivered
               /\ id \in DOMAIN m_tasks => m_tasks[id] = NewWrapper

\* Update has reaped a task whose body threw, whose token is still in
\* m_cancellations, and the only callback run is another task's.
C29_Witness ==
    \E a \in Ids \ DOMAIN m_tasks, b \in Delivered :
        /\ future[a] = "exc"
        /\ a \in m_cancellations
        /\ Len(cbLog) = 1
        /\ future[b] = "val"

====
